---- MODULE Spec2Model ----
(***************************************************************************)
(* A model of backend/main.py: the GitHub URL parser, the tree builder,    *)
(* the sort pass, the aggregator and the /api/repo request with its        *)
(* concurrent, semaphore-bounded summarization fan-out.                    *)
(*                                                                         *)
(* Python strings are modelled as sequences of one-character strings, so   *)
(* that str.replace, str.split, str.strip, re.search and the ordering of   *)
(* strings are computed character by character.                            *)
(***************************************************************************)
EXTENDS Integers, Sequences, FiniteSets, TLC

VARIABLES
    pc,         \* position of the operation under analysis
    url,        \* the url argument (sequence of characters)
    parsed,     \* result of parse_github_url(url)
    blobs,      \* the list of {path, type} records (line 159)
    nodes,      \* the heap of tree node dicts; nodes[1] is root
    status,     \* per node: position of its generate_summaries task
    sem,        \* the asyncio.Semaphore: [value, holders]
    env,        \* the stubbed outside world: per-path fetch and LLM outcomes
    llmCalls,   \* set of nodes for which get_groq_response was called
    callsMade,  \* number of metadata calls (fetch_json) issued so far
    callLog,    \* HTTP statuses of the metadata replies, in order
    resp,       \* the HTTP response of /api/repo
    given,      \* history: what the inputs were made of
    txt         \* per file task: its local variable txt (line 119)

vars == <<pc, url, parsed, blobs, nodes, status, sem, env, llmCalls,
          callsMade, callLog, resp, given, txt>>

(***************************************************************************)
(* Bounds of the model.                                                    *)
(***************************************************************************)
MaxOwnerLen == 1
MaxRepoLen == 5
MaxItems == 3
NFlat == 7

(***************************************************************************)
(* Characters and strings.                                                 *)
(***************************************************************************)
\* ord(c) for the characters the model uses
Ord(c) ==
    CASE c = " " -> 32
      [] c = "." -> 46
      [] c = "/" -> 47
      [] c = ":" -> 58
      [] c = "@" -> 64
      [] c = "B" -> 66
      [] c = "a" -> 97
      [] c = "b" -> 98
      [] c = "c" -> 99
      [] c = "d" -> 100
      [] c = "e" -> 101
      [] c = "f" -> 102
      [] c = "g" -> 103
      [] c = "h" -> 104
      [] c = "i" -> 105
      [] c = "m" -> 109
      [] c = "o" -> 111
      [] c = "p" -> 112
      [] c = "r" -> 114
      [] c = "s" -> 115
      [] c = "t" -> 116
      [] c = "u" -> 117
      [] c = "w" -> 119

\* characters matched by \s and removed by str.strip()
Whitespace == {" "}

\* Python's < on str: lexicographic by code point
RECURSIVE StrLess(_, _)
StrLess(a, b) ==
    IF b = <<>> THEN FALSE
    ELSE IF a = <<>> THEN TRUE
    ELSE IF Head(a) = Head(b) THEN StrLess(Tail(a), Tail(b))
    ELSE Ord(Head(a)) < Ord(Head(b))

StartsWithAt(s, i, pat) ==
    /\ i + Len(pat) - 1 <= Len(s)
    /\ SubSeq(s, i, i + Len(pat) - 1) = pat

\* s.replace(old, new): every non-overlapping occurrence, left to right
RECURSIVE Replace(_, _, _)
Replace(s, old, new) ==
    IF Len(s) < Len(old) THEN s
    ELSE IF StartsWithAt(s, 1, old)
         THEN new \o Replace(SubSeq(s, Len(old) + 1, Len(s)), old, new)
         ELSE <<Head(s)>> \o Replace(Tail(s), old, new)

\* s.strip()
RECURSIVE LStrip(_)
LStrip(s) ==
    IF s # <<>> /\ Head(s) \in Whitespace THEN LStrip(Tail(s)) ELSE s

RECURSIVE RStrip(_)
RStrip(s) ==
    IF s # <<>> /\ s[Len(s)] \in Whitespace
    THEN RStrip(SubSeq(s, 1, Len(s) - 1)) ELSE s

Strip(s) == RStrip(LStrip(s))

\* s.split("/")
RECURSIVE Split(_)
Split(s) ==
    IF \A i \in 1..Len(s) : s[i] # "/" THEN <<s>>
    ELSE LET k == CHOOSE i \in 1..Len(s) :
                      s[i] = "/" /\ \A j \in 1..(i - 1) : s[j] # "/"
         IN <<SubSeq(s, 1, k - 1)>> \o Split(SubSeq(s, k + 1, Len(s)))

(***************************************************************************)
(* parse_github_url (lines 80-89).                                         *)
(***************************************************************************)
GitAtPrefix == <<"g","i","t","@","g","i","t","h","u","b",".","c","o","m",":">>
HttpsGithub == <<"h","t","t","p","s",":","/","/","g","i","t","h","u","b",".","c","o","m","/">>
GithubColon == <<"g","i","t","h","u","b",".","c","o","m",":">>
GithubSlash == <<"g","i","t","h","u","b",".","c","o","m","/">>
HttpScheme == <<"h","t","t","p",":","/","/">>
HttpsScheme == <<"h","t","t","p","s",":","/","/">>
Www == <<"w","w","w",".">>
DotGit == <<".","g","i","t">>

\* the class [^\/\s]
SegChar(c) == c # "/" /\ c \notin Whitespace

\* last index of the maximal run of [^\/\s] starting at i (i - 1 if empty)
RECURSIVE RunEnd(_, _)
RunEnd(s, i) ==
    IF i <= Len(s) /\ SegChar(s[i]) THEN RunEnd(s, i + 1) ELSE i - 1

NoMatch == [ok |-> FALSE, owner |-> <<>>, repo |-> <<>>]

\* github\.com\/(?P<owner>[^\/\s]+)\/(?P<repo>[^\/\s]+) matched at position r.
\* Both groups are greedy; the owner run must be followed by "/", which no
\* shorter owner can reach, so backtracking finds nothing more.
MatchCore(s, r) ==
    IF ~StartsWithAt(s, r, GithubSlash) THEN NoMatch
    ELSE LET o1 == r + Len(GithubSlash)
             o2 == RunEnd(s, o1)
             r1 == o2 + 2
             r2 == RunEnd(s, r1)
         IN IF o2 >= o1 /\ o2 + 1 <= Len(s) /\ s[o2 + 1] = "/" /\ r2 >= r1
            THEN [ok |-> TRUE, owner |-> SubSeq(s, o1, o2),
                  repo |-> SubSeq(s, r1, r2)]
            ELSE NoMatch

\* positions after (?:https?:\/\/)? at p, in the order the engine tries them
AfterScheme(s, p) ==
    (IF StartsWithAt(s, p, HttpsScheme) THEN <<p + Len(HttpsScheme)>> ELSE <<>>)
    \o (IF StartsWithAt(s, p, HttpScheme) THEN <<p + Len(HttpScheme)>> ELSE <<>>)
    \o <<p>>

\* positions after (?:www\.)? at q, in the order the engine tries them
AfterWww(s, q) ==
    (IF StartsWithAt(s, q, Www) THEN <<q + Len(Www)>> ELSE <<>>) \o <<q>>

RECURSIVE FlatMapWww(_, _)
FlatMapWww(s, qs) ==
    IF qs = <<>> THEN <<>>
    ELSE AfterWww(s, Head(qs)) \o FlatMapWww(s, Tail(qs))

RECURSIVE FirstCore(_, _)
FirstCore(s, rs) ==
    IF rs = <<>> THEN NoMatch
    ELSE IF MatchCore(s, Head(rs)).ok THEN MatchCore(s, Head(rs))
    ELSE FirstCore(s, Tail(rs))

\* the whole pattern anchored at p
MatchAt(s, p) == FirstCore(s, FlatMapWww(s, AfterScheme(s, p)))

\* re.search: the match at the leftmost position that has one
RECURSIVE SearchFrom(_, _)
SearchFrom(s, p) ==
    IF p > Len(s) THEN NoMatch
    ELSE IF MatchAt(s, p).ok THEN MatchAt(s, p)
    ELSE SearchFrom(s, p + 1)

ReSearch(s) == SearchFrom(s, 1)

parse_github_url(u) ==
    IF u = <<>> THEN NoMatch
    ELSE LET s == Replace(Replace(Strip(u), GitAtPrefix, HttpsGithub),
                          GithubColon, GithubSlash)
             m == ReSearch(s)
         IN IF ~m.ok THEN NoMatch
            ELSE [ok |-> TRUE, owner |-> m.owner,
                  repo |-> Replace(m.repo, DotGit, <<>>)]

(***************************************************************************)
(* Tree nodes.  The dicts of build_hierarchy live in a heap, nodes; a      *)
(* node's "children" list holds heap indices and nodes[1] is root.  A key  *)
(* a dict lacks ("isFile" on root, "summary" before it is assigned) is     *)
(* absent from the record's domain.                                        *)
(***************************************************************************)
RootId == 1

\* node.get("isFile") / x.get("isFile", False)
IsFileOf(n) == IF "isFile" \in DOMAIN n THEN n.isFile ELSE FALSE

\* the literal summaries; a summary is [text, of]
NA == [text |-> "N/A", of |-> <<>>]
CouldNotFetch == [text |-> "Could not fetch file content.", of |-> <<>>]

\* n.get('summary', 'N/A')
SummaryOf(n) == IF "summary" \in DOMAIN n THEN n.summary ELSE NA

\* node["summary"] = s
SetSummary(n, s) ==
    IF "isFile" \in DOMAIN n
    THEN [name |-> n.name, children |-> n.children, path |-> n.path,
          isFile |-> n.isFile, summary |-> s]
    ELSE [name |-> n.name, children |-> n.children, path |-> n.path,
          summary |-> s]

NodeIds(ns) == 1..Len(ns)
FileIds(ns) == {i \in NodeIds(ns) : IsFileOf(ns[i])}
DirIds(ns) == NodeIds(ns) \ FileIds(ns)

RECURSIVE SeqToSet(_)
SeqToSet(q) == IF q = <<>> THEN {} ELSE {Head(q)} \cup SeqToSet(Tail(q))

(***************************************************************************)
(* build_hierarchy (lines 91-107).                                         *)
(***************************************************************************)
InitialRoot == <<[name |-> <<"/">>, children |-> <<>>, path |-> <<>>]>>

\* next((c for c in node["children"] if c["name"] == p), None); 0 is None
RECURSIVE FindChild(_, _, _)
FindChild(ns, kids, p) ==
    IF kids = <<>> THEN 0
    ELSE IF ns[Head(kids)].name = p THEN Head(kids)
    ELSE FindChild(ns, Tail(kids), p)

\* "isFile": i == len(parts) - 1 and item.get("type") == "blob"
AnyBlobSegment(i, parts, type) == type = "blob"
NewIsFile(i, parts, type) == i = Len(parts) /\ type = "blob"

\* node["path"] + "/" + p if node["path"] else p
ChildPath(parentPath, p) ==
    IF parentPath # <<>> THEN parentPath \o <<"/">> \o p ELSE p

\* the inner loop over parts, from part i on, standing at node cur
RECURSIVE WalkParts(_, _, _, _, _)
WalkParts(ns, cur, parts, i, type) ==
    IF i > Len(parts) THEN ns
    ELSE LET p == parts[i]
             found == FindChild(ns, ns[cur].children, p)
         IN IF found # 0 THEN WalkParts(ns, found, parts, i + 1, type)
            ELSE LET id == Len(ns) + 1
                     child == [name |-> p, children |-> <<>>,
                               path |-> ChildPath(ns[cur].path, p),
                               isFile |-> NewIsFile(i, parts, type)]
                     ns2 == Append([ns EXCEPT ![cur].children = Append(@, id)],
                                   child)
                 IN WalkParts(ns2, id, parts, i + 1, type)

RECURSIVE BuildFrom(_, _)
BuildFrom(ns, items) ==
    IF items = <<>> THEN ns
    ELSE BuildFrom(WalkParts(ns, RootId, Split(Head(items).path), 1,
                             Head(items).type),
                   Tail(items))

build_hierarchy(items) == BuildFrom(InitialRoot, items)

(***************************************************************************)
(* sort_tree (lines 109-113).                                              *)
(***************************************************************************)
\* key=lambda x: (not x.get("isFile", False), x["name"])
SortKey(n) == [first |-> ~IsFileOf(n), name |-> n.name]

\* Python's < on the key tuples (False < True, then str order)
KeyLess(a, b) ==
    \/ a.first = FALSE /\ b.first = TRUE
    \/ a.first = b.first /\ StrLess(a.name, b.name)

\* list.sort is stable: x goes after every element whose key is not greater
RECURSIVE InsertByKey(_, _, _)
InsertByKey(ns, x, sorted) ==
    IF sorted = <<>> THEN <<x>>
    ELSE IF KeyLess(SortKey(ns[x]), SortKey(ns[Head(sorted)]))
         THEN <<x>> \o sorted
         ELSE <<Head(sorted)>> \o InsertByKey(ns, x, Tail(sorted))

RECURSIVE SortIds(_, _, _)
SortIds(ns, kids, acc) ==
    IF kids = <<>> THEN acc
    ELSE SortIds(ns, Tail(kids), InsertByKey(ns, Head(kids), acc))

\* sort_tree over a stack of nodes still to visit (depth first)
RECURSIVE SortWork(_, _)
SortWork(ns, work) ==
    IF work = <<>> THEN ns
    ELSE LET id == Head(work)
             kids == SortIds(ns, ns[id].children, <<>>)
         IN SortWork([ns EXCEPT ![id].children = kids], kids \o Tail(work))

sort_tree(ns) == SortWork(ns, <<RootId>>)

(***************************************************************************)
(* collect_summaries (lines 130-138).  The returned text is modelled as    *)
(* the list that "\n".join receives, one [file, summary] entry per line    *)
(* group "File: <path>\nSummary: <summary>\n".                             *)
(***************************************************************************)
RECURSIVE Traverse(_, _)
Traverse(ns, work) ==
    IF work = <<>> THEN <<>>
    ELSE LET id == Head(work)
             here == IF IsFileOf(ns[id])
                     THEN <<[file |-> ns[id].path, summary |-> SummaryOf(ns[id])]>>
                     ELSE <<>>
         IN here \o Traverse(ns, ns[id].children \o Tail(work))

collect_summaries(ns) == Traverse(ns, <<RootId>>)

(***************************************************************************)
(* Values shared by the specifications.                                    *)
(***************************************************************************)
NoResp == [status |-> 0]
NoEnv == [fetch |-> <<>>, llm |-> <<>>]
NewSem == [value |-> 0, holders |-> {}]

RECURSIVE SeqsUpTo(_, _)
SeqsUpTo(S, n) ==
    IF n = 0 THEN {<<>>}
    ELSE LET shorter == SeqsUpTo(S, n - 1)
         IN shorter \cup {Append(q, x) : q \in {r \in shorter : Len(r) = n - 1}, x \in S}

(***************************************************************************)
(* SpecParse: parse_github_url on the three well-formed URL shapes.        *)
(***************************************************************************)
NameChars == {"r", ".", "g", "i", "t"}
Owners == SeqsUpTo(NameChars, MaxOwnerLen) \ {<<>>}
Repos == SeqsUpTo(NameChars, MaxRepoLen) \ {<<>>}

EndsWithDotGit(s) ==
    Len(s) >= Len(DotGit) /\ SubSeq(s, Len(s) - Len(DotGit) + 1, Len(s)) = DotGit

UrlShapes == {"https", "https.git", "ssh.git"}

MakeUrl(shape, owner, repo) ==
    CASE shape = "https" -> HttpsGithub \o owner \o <<"/">> \o repo
      [] shape = "https.git" -> HttpsGithub \o owner \o <<"/">> \o repo \o DotGit
      [] shape = "ssh.git" -> GitAtPrefix \o owner \o <<"/">> \o repo \o DotGit

\* history: the owner and repo the url was made of
WellFormed ==
    {[shape |-> sh, owner |-> o, repo |-> r] :
        sh \in UrlShapes, o \in Owners, r \in {x \in Repos : ~EndsWithDotGit(x)}}

InitParse ==
    /\ \E w \in WellFormed :
          /\ url = MakeUrl(w.shape, w.owner, w.repo)
          /\ given = w
    /\ env = NoEnv
    /\ pc = "parse"
    /\ parsed = NoMatch
    /\ blobs = <<>>
    /\ nodes = InitialRoot
    /\ status = <<>>
    /\ sem = NewSem
    /\ llmCalls = {}
    /\ callsMade = 0
    /\ callLog = <<>>
    /\ resp = NoResp
    /\ txt = <<>>

Parse ==
    /\ pc = "parse"
    /\ parsed' = parse_github_url(url)
    /\ pc' = "parsed"
    /\ UNCHANGED <<url, blobs, nodes, status, sem, env, llmCalls, callsMade,
                   callLog, resp, given, txt>>

NextParse == Parse

SpecParse == InitParse /\ [][NextParse]_vars

\* C3: on every well-formed URL made of owner and repo (repo not ending in
\* ".git"), parse_github_url returns exactly that owner and that repo.
C3_ParseRoundTrip ==
    pc = "parsed" =>
        parsed = [ok |-> TRUE, owner |-> given.owner, repo |-> given.repo]

(***************************************************************************)
(* SpecTree: build_hierarchy, sort_tree and collect_summaries on every     *)
(* list of at most MaxItems records over a pool of paths.                  *)
(***************************************************************************)
PathPool ==
    { <<"b">>, <<"a","b">>,
      <<"b","/","b">>, <<"b","/","a","b">>,
      <<"a","b","/","b">>, <<"a","b","/","a","b">>,
      <<"b","/","b","/","a","b">> }

RecordPool == {[path |-> p, type |-> t] : p \in PathPool, t \in {"blob", "tree"}}

InitTree ==
    /\ blobs \in SeqsUpTo(RecordPool, MaxItems)
    /\ pc = "listed"
    /\ url = <<>>
    /\ parsed = NoMatch
    /\ nodes = InitialRoot
    /\ status = <<>>
    /\ sem = NewSem
    /\ env = NoEnv
    /\ llmCalls = {}
    /\ callsMade = 0
    /\ callLog = <<>>
    /\ resp = NoResp
    /\ given = <<>>
    /\ txt = <<>>

Build ==
    /\ pc = "listed"
    /\ nodes' = build_hierarchy(blobs)
    /\ pc' = "built"
    /\ UNCHANGED <<url, parsed, blobs, status, sem, env, llmCalls, callsMade,
                   callLog, resp, given, txt>>

Sort ==
    /\ pc = "built"
    /\ nodes' = sort_tree(nodes)
    /\ pc' = "sorted"
    /\ UNCHANGED <<url, parsed, blobs, status, sem, env, llmCalls, callsMade,
                   callLog, resp, given, txt>>

Collect ==
    /\ pc = "sorted"
    /\ resp' = [status |-> 200, summaries |-> collect_summaries(nodes)]
    /\ pc' = "collected"
    /\ UNCHANGED <<url, parsed, blobs, nodes, status, sem, env, llmCalls,
                   callsMade, callLog, given, txt>>

NextTree == Build \/ Sort \/ Collect

SpecTree == InitTree /\ [][NextTree]_vars

\* is sequence a a proper prefix of sequence b
ProperPrefix(a, b) == Len(a) < Len(b) /\ SubSeq(b, 1, Len(a)) = a

\* no record's path continues, by further segments, the path of a blob record
NoRecordExtendsBlob(items) ==
    \A i, j \in 1..Len(items) :
        items[i].type = "blob" =>
            ~ProperPrefix(Split(items[i].path), Split(items[j].path))

TreeNodeInvariant(ns) ==
    /\ \A i \in NodeIds(ns) : IsFileOf(ns[i]) => ns[i].children = <<>>
    /\ ns[RootId].path = <<>>
    /\ ~IsFileOf(ns[RootId])

DirsBeforeFiles(ns, kids) ==
    \A i, j \in 1..Len(kids) :
        i < j => ~(IsFileOf(ns[kids[i]]) /\ ~IsFileOf(ns[kids[j]]))

NamesAscendInGroups(ns, kids) ==
    \A i, j \in 1..Len(kids) :
        (i < j /\ IsFileOf(ns[kids[i]]) = IsFileOf(ns[kids[j]]))
            => ~StrLess(ns[kids[j]].name, ns[kids[i]].name)

\* C2: after sort_tree, at every node the directory children precede the file
\* children and within each of the two groups the names are non-decreasing.
C2_DirsFirstThenNames ==
    pc \in {"sorted", "collected"} =>
        \A d \in NodeIds(nodes) :
            /\ DirsBeforeFiles(nodes, nodes[d].children)
            /\ NamesAscendInGroups(nodes, nodes[d].children)

\* C7 as stated: for every list of records the built tree has no file node
\* with children, and its root has path "" and is no file.
C7_TreeInvariantAnyRecords ==
    pc # "listed" => TreeNodeInvariant(nodes)

\* C7 as amended: the same, for every list of records in which no record's
\* path continues the path of a blob record.
C7_TreeInvariantConsistentRecords ==
    (pc # "listed" /\ NoRecordExtendsBlob(blobs)) => TreeNodeInvariant(nodes)

\* a consistent list that holds a tree record and a blob below a directory
C7_Witness ==
    /\ pc = "built"
    /\ NoRecordExtendsBlob(blobs)
    /\ \E i \in 1..Len(blobs) : blobs[i].type = "tree"
    /\ \E f \in FileIds(nodes) : Len(Split(nodes[f].path)) = 3
    /\ \E d \in DirIds(nodes) : d # RootId /\ nodes[d].children # <<>>

(***************************************************************************)
(* The /api/repo request (lines 140-170) and generate_summaries            *)
(* (lines 115-128).                                                        *)
(***************************************************************************)
SemCapacity == 6
MetaCalls == 4

\* asyncio.Semaphore as used by "async with semaphore" (line 118).  Which
\* of the blocked tasks gets a freed slot is left open, which covers the
\* first-come order of asyncio.
Semaphore(n) == [value |-> n, holders |-> {}]
LockedNever(s) == FALSE
Locked(s) == s.value = 0
Acquire(s, n) == [value |-> s.value - 1, holders |-> s.holders \cup {n}]
Release(s, n) == [value |-> s.value + 1, holders |-> s.holders \ {n}]

\* leaving the "async with semaphore" block once fetch_text has returned or
\* raised, before the "if txt" statement
KeepSlot(s, n) == s
LeaveFetchBlock(s, n) == Release(s, n)

\* fetch_json (lines 40-45): what one metadata call ends with
fetch_json(code, bodyOk) ==
    IF code >= 400 THEN [kind |-> "HTTPException", code |-> code]
    ELSE IF ~bodyOk THEN [kind |-> "Exception", code |-> 0]
    ELSE [kind |-> "ok", code |-> code]

\* the except clauses of get_repo (lines 167-170)
AlwaysInternalError(e) == 500
ExceptionStatus(e) == IF e.kind = "HTTPException" THEN e.code ELSE 500

\* fetch_text (lines 47-51): None on a non-200 status, else the body
None == [none |-> TRUE, txt |-> <<>>]
FileText(path) == <<"#">> \o path
fetch_text(outcome, path) ==
    CASE outcome = "non200" -> None
      [] outcome = "empty" -> [none |-> FALSE, txt |-> <<>>]
      [] outcome = "ok" -> [none |-> FALSE, txt |-> FileText(path)]

\* "if txt" (line 120)
IsNotNone(r) == ~r.none
Truthy(r) == ~r.none /\ r.txt # <<>>

\* the prompt of line 121, reduced to its two variable parts
Prompt(path, body) == path \o <<"\n">> \o body

\* get_groq_response (lines 53-78) returning a string: the model's reply
\* to the prompt, or one of the strings it returns instead of raising
get_groq_response(outcome, prompt) ==
    IF outcome = "reply" THEN [text |-> "reply", of |-> prompt]
    ELSE [text |-> "Error generating response", of |-> <<>>]

TaskIn(st) == {n \in DOMAIN status : status[n] = st}

\* raw_url (line 117), reduced to the part that varies between the tasks
RawUrlShared(n) == nodes[CHOOSE m \in TaskIn("fetching") :
                             \A k \in TaskIn("fetching") : m <= k].path
RawUrl(n) == nodes[n].path

\* await asyncio.gather(*coros) (line 128) returns
GatherFirstCompleted(d) ==
    \E i \in 1..Len(nodes[d].children) : status[nodes[d].children[i]] = "done"
GatherComplete(d) ==
    \A i \in 1..Len(nodes[d].children) : status[nodes[d].children[i]] = "done"

\* blobs = [... for t in tree_resp.get("tree", []) if t["type"] in ("blob", "tree")]
RECURSIVE FilterBlobs(_)
FilterBlobs(tree) ==
    IF tree = <<>> THEN <<>>
    ELSE (IF Head(tree).type \in {"blob", "tree"}
          THEN <<[path |-> Head(tree).path, type |-> Head(tree).type]>>
          ELSE <<>>) \o FilterBlobs(Tail(tree))

(***************************************************************************)
(* The stubbed outside world of SpecRepo.                                  *)
(***************************************************************************)
MetaStatuses == {200, 403, 404, 500}

ValidUrl == GitAtPrefix \o <<"o", "/", "r">> \o DotGit
RepoUrls == {ValidUrl, <<>>, GithubSlash \o <<"o">>}

Letters == <<"a", "b", "c", "d", "e", "f", "g", "h", "i">>

\* NFlat files in the root directory, listed in descending name order
FlatListing ==
    [i \in 1..NFlat |-> [path |-> <<Letters[NFlat + 1 - i]>>, type |-> "blob"]]

\* NFlat files, every second one inside the directory d
MixedListing ==
    [i \in 1..NFlat |->
        [path |-> IF i % 2 = 0 THEN <<"d", "/", Letters[i]>> ELSE <<Letters[i]>>,
         type |-> "blob"]]

\* a directory with two files, a root file and a submodule
NestedListing ==
    << [path |-> <<"d">>, type |-> "tree"],
       [path |-> <<"d","/","b">>, type |-> "blob"],
       [path |-> <<"e">>, type |-> "commit"],
       [path |-> <<"d","/","a">>, type |-> "blob"],
       [path |-> <<"c">>, type |-> "blob"] >>

\* directories implied by a path only, an empty directory, an upper-case name
DeepListing ==
    << [path |-> <<"a","/","b","/","c">>, type |-> "blob"],
       [path |-> <<"a","b">>, type |-> "tree"],
       [path |-> <<"B">>, type |-> "blob"] >>

FetchOutcomes == {"ok", "non200", "empty", "raise"}
LlmOutcomes == {"reply", "error_text", "raise"}

Outcomes ==
    {[fetch |-> "ok", llm |-> l] : l \in LlmOutcomes}
    \cup {[fetch |-> f, llm |-> "reply"] : f \in FetchOutcomes \ {"ok"}}

BlobPaths(tree) == {tree[i].path : i \in {j \in 1..Len(tree) : tree[j].type = "blob"}}

AllOk(tree) == [p \in BlobPaths(tree) |-> [fetch |-> "ok", llm |-> "reply"]]
FirstUnreadable(tree) ==
    [p \in BlobPaths(tree) |->
        IF p = tree[1].path THEN [fetch |-> "non200", llm |-> "reply"]
        ELSE [fetch |-> "ok", llm |-> "reply"]]

Scenarios ==
    {[tree |-> FlatListing, env |-> e] :
        e \in {AllOk(FlatListing), FirstUnreadable(FlatListing)}}
    \cup {[tree |-> MixedListing, env |-> AllOk(MixedListing)]}
    \cup {[tree |-> NestedListing, env |-> e] :
        e \in [BlobPaths(NestedListing) -> Outcomes]}
    \cup {[tree |-> DeepListing, env |-> e] :
        e \in [BlobPaths(DeepListing) -> Outcomes]}
    \cup {[tree |-> <<>>, env |-> <<>>]}

(***************************************************************************)
(* SpecRepo: one /api/repo request.                                        *)
(***************************************************************************)
InitRepo ==
    /\ url \in RepoUrls
    /\ pc = "start"
    /\ parsed = NoMatch
    /\ blobs = <<>>
    /\ nodes = InitialRoot
    /\ status = <<>>
    /\ sem = NewSem
    /\ env = <<>>
    /\ llmCalls = {}
    /\ callsMade = 0
    /\ callLog = <<>>
    /\ resp = NoResp
    /\ given = <<>>
    /\ txt = <<>>

\* lines 142-149: parse the url; 400, or issue the first metadata call
Begin ==
    /\ pc = "start"
    /\ parsed' = parse_github_url(url)
    /\ IF ~parsed'.ok
       THEN /\ resp' = [status |-> 400]
            /\ pc' = "responded"
            /\ callsMade' = callsMade
       ELSE /\ resp' = resp
            /\ pc' = "meta"
            /\ callsMade' = 1
    /\ UNCHANGED <<url, blobs, nodes, status, sem, env, llmCalls, callLog, given, txt>>

\* lines 161-163: build the tree, create the semaphore and run
\* generate_summaries(root) up to its first await
StartSummaries(sc) ==
    LET bl == FilterBlobs(sc.tree)
        ns == build_hierarchy(bl)
    IN /\ blobs' = bl
       /\ nodes' = ns
       /\ env' = sc.env
       /\ given' = sc.tree
       /\ sem' = Semaphore(SemCapacity)
       /\ status' = [i \in NodeIds(ns) |->
                        IF i # RootId THEN "unvisited"
                        ELSE IF ns[RootId].children # <<>> THEN "recursing"
                        ELSE "done"]
       /\ txt' = [i \in NodeIds(ns) |-> <<>>]
       /\ pc' = "summarizing"
       /\ resp' = resp
       /\ callsMade' = callsMade

\* lines 149-158: the reply to metadata call number callsMade arrives
MetaReply ==
    /\ pc = "meta"
    /\ \E code \in MetaStatuses, bodyOk \in BOOLEAN :
         LET r == fetch_json(code, bodyOk)
         IN /\ callLog' = Append(callLog, code)
            /\ IF r.kind # "ok"
               THEN /\ resp' = [status |-> ExceptionStatus(r)]
                    /\ pc' = "responded"
                    /\ UNCHANGED <<blobs, nodes, status, sem, env, callsMade, given, txt>>
               ELSE IF callsMade < MetaCalls
               THEN /\ callsMade' = callsMade + 1
                    /\ UNCHANGED <<pc, blobs, nodes, status, sem, env, resp, given, txt>>
               ELSE \E sc \in Scenarios : StartSummaries(sc)
    /\ UNCHANGED <<url, parsed, llmCalls>>

\* lines 125-128: the task of a directory child starts
StartDir(n) ==
    /\ pc = "summarizing"
    /\ status[n] = "unvisited"
    /\ ~IsFileOf(nodes[n])
    /\ status' = [status EXCEPT ![n] =
                     IF nodes[n].children # <<>> THEN "recursing" ELSE "done"]
    /\ UNCHANGED <<pc, url, parsed, blobs, nodes, sem, env, llmCalls, callsMade,
                   callLog, resp, given, txt>>

\* lines 116-119: the task of a file starts; it takes a slot and issues the
\* fetch, or blocks in semaphore.acquire()
StartFile(n) ==
    /\ pc = "summarizing"
    /\ status[n] = "unvisited"
    /\ IsFileOf(nodes[n])
    /\ IF Locked(sem)
       THEN /\ status' = [status EXCEPT ![n] = "waiting"]
            /\ sem' = sem
       ELSE /\ status' = [status EXCEPT ![n] = "fetching"]
            /\ sem' = Acquire(sem, n)
    /\ UNCHANGED <<pc, url, parsed, blobs, nodes, env, llmCalls, callsMade,
                   callLog, resp, given, txt>>

\* lines 118-119: a blocked task gets a slot and issues the fetch
Grant(n) ==
    /\ pc = "summarizing"
    /\ status[n] = "waiting"
    /\ ~Locked(sem)
    /\ status' = [status EXCEPT ![n] = "fetching"]
    /\ sem' = Acquire(sem, n)
    /\ UNCHANGED <<pc, url, parsed, blobs, nodes, env, llmCalls, callsMade,
                   callLog, resp, given, txt>>

\* lines 119-124: the fetch of a file ends; the slot is given back, then the
\* LLM call is issued or the literal summary assigned
FetchReply(n) ==
    /\ pc = "summarizing"
    /\ status[n] = "fetching"
    /\ sem' = LeaveFetchBlock(sem, n)
    /\ LET o == env[RawUrl(n)].fetch
       IN IF o = "raise"
          THEN /\ status' = [status EXCEPT ![n] = "raised"]
               /\ UNCHANGED <<nodes, llmCalls, txt>>
          ELSE LET r == fetch_text(o, RawUrl(n))
               IN IF Truthy(r)
                  THEN /\ status' = [status EXCEPT ![n] = "llm"]
                       /\ txt' = [txt EXCEPT ![n] = r.txt]
                       /\ llmCalls' = llmCalls \cup {n}
                       /\ nodes' = nodes
                  ELSE /\ status' = [status EXCEPT ![n] = "done"]
                       /\ nodes' = [nodes EXCEPT ![n] = SetSummary(@, CouldNotFetch)]
                       /\ UNCHANGED <<llmCalls, txt>>
    /\ UNCHANGED <<pc, url, parsed, blobs, env, callsMade, callLog, resp, given>>

\* line 122: the LLM call of a file ends
LlmReply(n) ==
    /\ pc = "summarizing"
    /\ status[n] = "llm"
    /\ LET o == env[nodes[n].path].llm
       IN IF o = "raise"
          THEN /\ status' = [status EXCEPT ![n] = "raised"]
               /\ nodes' = nodes
          ELSE /\ status' = [status EXCEPT ![n] = "done"]
               /\ nodes' = [nodes EXCEPT ![n] = SetSummary(@,
                               get_groq_response(o, Prompt(nodes[n].path, txt[n])))]
    /\ txt' = [txt EXCEPT ![n] = <<>>]
    /\ UNCHANGED <<pc, url, parsed, blobs, sem, env, llmCalls, callsMade,
                   callLog, resp, given>>

\* line 128: gather returns once every child task has
DirDone(d) ==
    /\ pc = "summarizing"
    /\ status[d] = "recursing"
    /\ GatherComplete(d)
    /\ status' = [status EXCEPT ![d] = "done"]
    /\ UNCHANGED <<pc, url, parsed, blobs, nodes, sem, env, llmCalls, callsMade,
                   callLog, resp, given, txt>>

\* line 128: gather hands on the first exception of a child; the other
\* children keep running
DirRaise(d) ==
    /\ pc = "summarizing"
    /\ status[d] = "recursing"
    /\ \E i \in 1..Len(nodes[d].children) : status[nodes[d].children[i]] = "raised"
    /\ status' = [status EXCEPT ![d] = "raised"]
    /\ UNCHANGED <<pc, url, parsed, blobs, nodes, sem, env, llmCalls, callsMade,
                   callLog, resp, given, txt>>

\* lines 164-166: generate_summaries(root) has returned
Respond ==
    /\ pc = "summarizing"
    /\ status[RootId] = "done"
    /\ nodes' = sort_tree(nodes)
    /\ resp' = [status |-> 200,
                tree |-> nodes',
                summaries |-> collect_summaries(nodes'),
                repo |-> parsed.owner \o <<"/">> \o parsed.repo,
                fileCount |-> Len(blobs)]
    /\ pc' = "responded"
    /\ UNCHANGED <<url, parsed, blobs, status, sem, env, llmCalls, callsMade,
                   callLog, given, txt>>

\* lines 169-170: generate_summaries(root) has raised.  The request is
\* followed up to its response; tasks still running then are left behind.
RespondError ==
    /\ pc = "summarizing"
    /\ status[RootId] = "raised"
    /\ resp' = [status |-> ExceptionStatus([kind |-> "Exception", code |-> 0])]
    /\ pc' = "responded"
    /\ UNCHANGED <<url, parsed, blobs, nodes, status, sem, env, llmCalls,
                   callsMade, callLog, given, txt>>

\* one step of one generate_summaries task
TaskStep ==
    \/ \E n \in NodeIds(nodes) : StartDir(n)
    \/ \E n \in NodeIds(nodes) : StartFile(n)
    \/ \E n \in NodeIds(nodes) : Grant(n)
    \/ \E n \in NodeIds(nodes) : FetchReply(n)
    \/ \E n \in NodeIds(nodes) : LlmReply(n)
    \/ \E n \in NodeIds(nodes) : DirDone(n)
    \/ \E n \in NodeIds(nodes) : DirRaise(n)

NextRepo ==
    \/ Begin
    \/ MetaReply
    \/ TaskStep
    \/ Respond
    \/ RespondError

SpecRepo == InitRepo /\ [][NextRepo]_vars

Started == DOMAIN status # {}

\* C1: the number of raw-content fetches in flight never exceeds the
\* capacity of the semaphore, whatever the tree and the interleaving.
C1_FetchesBounded == Cardinality(TaskIn("fetching")) <= SemCapacity

\* every slot is taken while a further file task is blocked in acquire
C1_Witness ==
    /\ Cardinality(TaskIn("fetching")) = SemCapacity
    /\ TaskIn("waiting") # {}
    /\ Cardinality(FileIds(nodes)) > SemCapacity

\* C4: the fileCount of a successful response is the number of file nodes
\* of the returned tree.
C4_FileCountIsFiles ==
    (pc = "responded" /\ resp.status = 200)
        => resp.fileCount = Cardinality(FileIds(resp.tree))

\* C5: a metadata call answered with a status >= 400 is the last call made,
\* the request ends with that very status, and neither the tree is built nor
\* a task for a raw-content fetch exists.
C5_MetadataFailureAborts ==
    \A k \in 1..Len(callLog) :
        callLog[k] >= 400 =>
            /\ k = Len(callLog)
            /\ callsMade = k
            /\ pc = "responded"
            /\ resp.status = callLog[k]
            /\ blobs = <<>>
            /\ nodes = InitialRoot
            /\ ~Started

\* the third metadata call is answered 404 and so is the request
C5_Witness ==
    /\ pc = "responded"
    /\ Len(callLog) = 3
    /\ callLog[3] = 404
    /\ resp.status = 404

Unreadable(n) == env[nodes[n].path].fetch \in {"non200", "empty"}
Raises(n) ==
    \/ env[nodes[n].path].fetch = "raise"
    \/ env[nodes[n].path].fetch = "ok" /\ env[nodes[n].path].llm = "raise"

\* C6: a file whose fetch returns a non-200 status or empty content gets the
\* summary "Could not fetch file content." and never an LLM call; that
\* failure aborts nothing: the request never gets stuck, it fails only when a
\* fetch or LLM call raises, and when it succeeds every file has a summary.
C6_UnreadableFileContained ==
    Started =>
        /\ \A n \in FileIds(nodes) :
              Unreadable(n) =>
                  /\ n \notin llmCalls
                  /\ status[n] # "raised"
                  /\ status[n] = "done" => SummaryOf(nodes[n]) = CouldNotFetch
        /\ pc = "summarizing" =>
              (status[RootId] \in {"done", "raised"} \/ ENABLED TaskStep)
        /\ (pc = "responded" /\ resp.status # 200)
              => \E n \in FileIds(nodes) : Raises(n)
        /\ (pc = "responded" /\ resp.status = 200)
              => \A n \in FileIds(nodes) :
                    status[n] = "done" /\ "summary" \in DOMAIN nodes[n]

\* a successful response in which an unreadable file carries the literal
\* summary and another file of the same directory the reply of the LLM
C6_Witness ==
    /\ pc = "responded"
    /\ resp.status = 200
    /\ \E d \in NodeIds(nodes) :
         \E n, m \in SeqToSet(nodes[d].children) :
            /\ IsFileOf(nodes[n]) /\ IsFileOf(nodes[m])
            /\ env[nodes[n].path].fetch = "non200"
            /\ SummaryOf(nodes[n]) = CouldNotFetch
            /\ SummaryOf(nodes[m]).text = "reply"

\* C8: a semaphore slot is held only by tasks whose fetch is in flight; no
\* task holds one while its LLM call runs.
C8_SlotOnlyDuringFetch ==
    /\ sem.holders \subseteq TaskIn("fetching")
    /\ \A n \in TaskIn("llm") : n \notin sem.holders

\* more LLM calls in flight than the semaphore has slots
C8_Witness ==
    /\ Cardinality(TaskIn("llm")) > SemCapacity
    /\ sem.holders = {}

\* C9: a directory is done only when all its children are; when
\* generate_summaries(root) has returned every file node has a summary and
\* no directory node has one.
C9_DirectoryWaitsForChildren ==
    Started =>
        /\ \A d \in DirIds(nodes) :
              status[d] = "done" =>
                  \A c \in SeqToSet(nodes[d].children) : status[c] = "done"
        /\ status[RootId] = "done" =>
              /\ \A f \in FileIds(nodes) : "summary" \in DOMAIN nodes[f]
              /\ \A d \in DirIds(nodes) : "summary" \notin DOMAIN nodes[d]

\* generate_summaries(root) has returned on a tree with a sub-directory of
\* two summarized files
C9_Witness ==
    /\ pc = "summarizing"
    /\ status[RootId] = "done"
    /\ \E d \in DirIds(nodes) :
          /\ d # RootId
          /\ Len(nodes[d].children) = 2
          /\ \A c \in SeqToSet(nodes[d].children) : "summary" \in DOMAIN nodes[c]

\* the summary a file gets when its task runs alone
ExpectedSummary(path) ==
    IF env[path].fetch \in {"non200", "empty"} THEN CouldNotFetch
    ELSE get_groq_response(env[path].llm, Prompt(path, FileText(path)))

\* every file node from index i on given the summary of a run alone
RECURSIVE WithSummaries(_, _)
WithSummaries(ns, i) ==
    IF i > Len(ns) THEN ns
    ELSE WithSummaries(IF IsFileOf(ns[i])
                       THEN [ns EXCEPT ![i] = SetSummary(@, ExpectedSummary(ns[i].path))]
                       ELSE ns,
                       i + 1)

\* the response tree of a run without interleaving: build, give every file
\* its summary, sort
ExpectedTree ==
    sort_tree(WithSummaries(build_hierarchy(FilterBlobs(given)), 1))

\* the file nodes below node id, depth first in child order
RECURSIVE PreorderFiles(_, _)
PreorderFiles(ns, ids) ==
    IF ids = <<>> THEN <<>>
    ELSE (IF IsFileOf(ns[Head(ids)]) THEN <<Head(ids)>> ELSE <<>>)
         \o PreorderFiles(ns, ns[Head(ids)].children)
         \o PreorderFiles(ns, Tail(ids))

\* the entries of the files ids, in that order
RECURSIVE ExpectedEntries(_, _)
ExpectedEntries(ns, ids) ==
    IF ids = <<>> THEN <<>>
    ELSE <<[file |-> ns[Head(ids)].path,
            summary |-> ExpectedSummary(ns[Head(ids)].path)]>>
         \o ExpectedEntries(ns, Tail(ids))

\* C10: a successful response depends on the listing and on the per-file
\* outcomes only: its tree is the sorted tree of the run without
\* interleaving, summaries included, and its text lists the files of that
\* tree depth first, each with its summary.
C10_ResultIndependentOfInterleaving ==
    (pc = "responded" /\ resp.status = 200) =>
        /\ ExpectedTree = resp.tree
        /\ ExpectedEntries(ExpectedTree, PreorderFiles(ExpectedTree, <<RootId>>))
              = resp.summaries

\* a successful response for the nested listing whose three files all carry
\* an LLM reply
C10_Witness ==
    /\ pc = "responded"
    /\ resp.status = 200
    /\ given = NestedListing
    /\ Len(resp.summaries) = 3
    /\ \A i \in 1..3 : resp.summaries[i].summary.text = "reply"

====
